---------------------------- MODULE Spec2Model ----------------------------
(***************************************************************************)
(* Model of the FreeType label control of plymouth                         *)
(* (src/plugins/controls/label-freetype/plugin.c).                         *)
(*                                                                         *)
(* Spec     : the control (create, show, hide, the setters, draw), every   *)
(*            handler one atomic action, with a log of the repaint         *)
(*            requests and of the pixel writes the last handler made.      *)
(* SpecBlit : draw_bitmap alone, applied to bounded inputs (negative start *)
(*            positions, glyphs larger than the target, any coverage).     *)
(* SpecLayout : size_control alone, on labels configured while hidden and  *)
(*            then shown.                                                  *)
(***************************************************************************)
EXTENDS Integers, Sequences, FiniteSets, TLC

VARIABLES
    label,      \* struct _ply_label_plugin_control
    requests,   \* the ply_pixel_display_draw_area calls of the last handler
    drawn,      \* what the last draw_control call did to its pixel buffer
    lastOp,     \* the handler that ran last
    hung,       \* the last handler entered a loop it cannot leave
    crashed,    \* the last handler read through a null pointer and faulted
    blit        \* SpecBlit: one draw_bitmap call, its inputs and its result

vars == <<label, requests, drawn, lastOp, hung, crashed, blit>>

-----------------------------------------------------------------------------
(* Bounds of the model *)

TargetW == 3       \* width of the pixel buffer handed to draw_control
TargetH == 2       \* height of that buffer (a zero-height one is drawn too)
MaxStart == 2      \* SpecBlit: x_start, y_start range over -MaxStart..MaxStart
MaxTarget == 2     \* SpecBlit: the target is 0..MaxTarget wide and high
MaxGlyph == 2      \* SpecBlit: the glyph bitmap is 0..MaxGlyph wide and high
MaxWidth == 3      \* SpecLayout: requested widths range over -1..MaxWidth

(* Program constants *)

DefaultSize == 25  \* size = 25; "Default, if not set."
InitialPoints == 12 \* FT_Set_Char_Size (face, 12 << 6, 0, 96, 0)
InitialDpi == 96
FontDpi == 72      \* FT_Set_Char_Size (face, size << 6, 0, 72, 0)

NL == "\n"
NULL == "NULL"           \* a null ply_pixel_display_t pointer
NullText == <<"NULL">>   \* label->text == NULL (no string at all)
Display == "display"     \* the one display a caller can attach

Min(a, b) == IF a <= b THEN a ELSE b

\* C's >> on a signed value (arithmetic shift): floor division by 2^n
Shr(v, n) == v \div (2 ^ n)
Shl(v, n) == v * (2 ^ n)

\* Conversions of an FT_Int v to uint32_t, against an unsigned operand u
\* below 2^31 (every size, width and height of the model): a negative v
\* converts to v + 2^32, which is above every such u.
Uint32Greater(v, u) == v < 0 \/ v > u        \* (uint32_t) v > u
Uint32AtLeast(v, u) == v < 0 \/ v >= u       \* (uint32_t) v >= u
Uint32Min(v, u) == IF v < 0 THEN u ELSE Min(v, u)   \* MIN ((unsigned) v, u)

-----------------------------------------------------------------------------
(* The font backend: FreeType, as the plugin reads it.                     *)

\* pixels per em after FT_Set_Char_Size (points, dpi)
CharSizePpem(points, dpi) == (points * dpi) \div 72

\* the scale every metric grows with
Unit(ppem) == ppem \div 8

\* face->size->metrics, in 26.6 fixed point
FaceMetrics(ppem) ==
    [ascender |-> Unit(ppem) * 64, descender |-> -64,
     height |-> (Unit(ppem) + 1) * 64]

\* FT_Load_Char (face, c, FT_LOAD_RENDER): the error and the glyph slot.
\*   "a" has no bearing and a fractional advance, "i" a positive left
\*   bearing, "j" a negative one and a half-covered bitmap, and "x" is a
\*   character the backend cannot load.
FT_Load_Char(ppem, c) ==
    LET u == Unit(ppem) IN
    CASE c = "a" -> [error |-> FALSE, advance_x |-> u * 64 + 32, advance_y |-> 0,
                     bitmap_left |-> 0, bitmap_top |-> u,
                     width |-> u, rows |-> u, coverage |-> 255]
      [] c = "i" -> [error |-> FALSE, advance_x |-> 64, advance_y |-> 0,
                     bitmap_left |-> 1, bitmap_top |-> u,
                     width |-> 1, rows |-> u, coverage |-> 255]
      [] c = "j" -> [error |-> FALSE, advance_x |-> u * 64, advance_y |-> 0,
                     bitmap_left |-> -1, bitmap_top |-> u,
                     width |-> u, rows |-> u + 1, coverage |-> 128]
      [] OTHER   -> [error |-> TRUE, advance_x |-> 0, advance_y |-> 0,
                     bitmap_left |-> 0, bitmap_top |-> 0,
                     width |-> 0, rows |-> 0, coverage |-> 0]

-----------------------------------------------------------------------------
(* Layout: width_of_line and size_control                                  *)

\* width_of_line (label, text + i - 1): the loop from character i on.
\* A character that fails to load changes neither `text' nor `width', so
\* the loop re-enters in the state it was in and never leaves: hung.
RECURSIVE width_of_line_from(_, _, _, _)
width_of_line_from(ppem, text, i, width) ==
    IF i > Len(text) \/ text[i] = NL
    THEN [hung |-> FALSE, width |-> width]
    ELSE LET g == FT_Load_Char(ppem, text[i]) IN
         IF ~g.error
         THEN LET w1 == width + Shr(g.advance_x, 6)
                  w2 == IF g.bitmap_left < 0 THEN w1 - g.bitmap_left ELSE w1
              IN width_of_line_from(ppem, text, i + 1, w2)
         ELSE [hung |-> TRUE, width |-> width]

width_of_line(ppem, text, i) == width_of_line_from(ppem, text, i, 0)

\* strchr (text + i - 1, '\n'): the index of the next newline, 0 for NULL
RECURSIVE strchr_nl(_, _)
strchr_nl(text, i) ==
    IF i > Len(text) THEN 0
    ELSE IF text[i] = NL THEN i
    ELSE strchr_nl(text, i + 1)

\* the "Go through each line" loop of size_control, from character i on
RECURSIVE size_lines(_, _, _, _, _)
size_lines(ppem, text, i, width, height) ==
    IF text = NullText \/ i = 0 \/ i > Len(text)
    THEN [hung |-> FALSE, width |-> width, height |-> height]
    ELSE LET line == width_of_line(ppem, text, i)
             m == FaceMetrics(ppem)
             w1 == IF Uint32Greater(line.width, width) THEN line.width ELSE width
             h1 == height + Shr(m.ascender - m.descender, 6)
             nl == strchr_nl(text, i)
         IN IF line.hung
            THEN [hung |-> TRUE, width |-> width, height |-> height]
            ELSE size_lines(ppem, text, IF nl = 0 THEN 0 ELSE nl + 1, w1, h1)

\* size_control without its last statement: the requested width is ignored
size_control_no_min_width(l) ==
    IF l.is_hidden
    THEN [label |-> l, hung |-> FALSE]
    ELSE LET s == size_lines(l.face, l.text, 1, 0, 0)
         IN [label |-> [l EXCEPT !.area.width = s.width,
                                 !.area.height = s.height],
             hung |-> s.hung]

\* size_control (label): the label after the call, and whether it returns
size_control(l) ==
    IF l.is_hidden
    THEN [label |-> l, hung |-> FALSE]
    ELSE LET s == size_lines(l.face, l.text, 1, 0, 0)
             w == IF ~s.hung /\ s.width < l.width THEN l.width ELSE s.width
         IN [label |-> [l EXCEPT !.area.width = w, !.area.height = s.height],
             hung |-> s.hung]

-----------------------------------------------------------------------------
(* Repaint requests *)

\* one ply_pixel_display_draw_area call, with the visibility the label has
\* while it is made
draw_area(l, area) ==
    [display |-> l.display, x |-> area.x, y |-> area.y,
     width |-> area.width, height |-> area.height, is_hidden |-> l.is_hidden]

\* trigger_redraw (label, adjust_size): the label after the call, the
\* repaint requests it made, and whether it returns
trigger_redraw(l, adjust_size) ==
    LET dirty_area == l.area IN
    IF l.is_hidden \/ l.display = NULL
    THEN [label |-> l, requests |-> <<>>, hung |-> FALSE]
    ELSE LET s == IF adjust_size THEN size_control(l)
                  ELSE [label |-> l, hung |-> FALSE]
         IN IF s.hung
            THEN [label |-> s.label, requests |-> <<>>, hung |-> TRUE]
            ELSE [label |-> s.label,
                  requests |-> <<draw_area(s.label, dirty_area)>>,
                  hung |-> FALSE]

-----------------------------------------------------------------------------
(* Compositing: draw_bitmap and draw_control                               *)
(*                                                                         *)
(* A pixel buffer is [size, pixels, touched]: pixels[1 + x + width * y] is *)
(* the 32-bit ARGB word at (x, y), held as its four bytes [a, r, g, b],    *)
(* and touched collects the (x, y) the blits read and wrote.               *)
(* The colour channels and the label's alpha are 0                         *)
(* or 1 (0.0f, 1.0f); a coverage byte c gives alpha = label.alpha * c/255, *)
(* kept as the numerator over 255.  For 0 < alpha < 1 the blend is the     *)
(* exact quotient; single precision may round a channel one unit lower     *)
(* where that quotient is integral.                                        *)

\* (uint8_t) (dest >> 16), (uint8_t) (dest >> 8), (uint8_t) dest
Red(dest) == dest.r
Green(dest) == dest.g
Blue(dest) == dest.b

\* (ad << 24) | (rd << 16) | (gd << 8) | bd
Argb(ad, rd, gd, bd) == [a |-> ad, r |-> rd, g |-> gd, b |-> bd]

\* the inner loop with alpha and invalpha exchanged in the colour channels
blend_swapped_weights(l, coverage, dest) ==
    LET rs == (255 * l.red) % 256
        gs == (255 * l.green) % 256
        bs == (255 * l.blue) % 256
        alpha == l.alpha * coverage
        invalpha == 255 - alpha
        rd == ((alpha * Red(dest) + invalpha * rs) \div 255) % 256
        gd == ((alpha * Green(dest) + invalpha * gs) \div 255) % 256
        bd == ((alpha * Blue(dest) + invalpha * bs) \div 255) % 256
        ad == ((alpha * 255) \div 255) % 256
    IN Argb(ad, rd, gd, bd)

\* the body of the inner loop: the new word of a pixel holding dest
blend(l, coverage, dest) ==
    LET rs == (255 * l.red) % 256
        gs == (255 * l.green) % 256
        bs == (255 * l.blue) % 256
        alpha == l.alpha * coverage            \* over 255
        invalpha == 255 - alpha                \* over 255
        rd == ((invalpha * Red(dest) + alpha * rs) \div 255) % 256
        gd == ((invalpha * Green(dest) + alpha * gs) \div 255) % 256
        bd == ((invalpha * Blue(dest) + alpha * bs) \div 255) % 256
        ad == ((alpha * 255) \div 255) % 256
    IN Argb(ad, rd, gd, bd)

\* draw_bitmap without its early return
blit_starts_anywhere(target_size, x_start, y_start) == TRUE

\* "if ((uint32_t) x_start >= target_size.width || ...) return;" negated
blit_starts_inside(target_size, x_start, y_start) ==
    ~(Uint32AtLeast(x_start, target_size.width)
      \/ Uint32AtLeast(y_start, target_size.height))

\* x_end = MIN (x_start + source->width, target_size.width): the sum is an
\* unsigned int
blit_end(start, extent, limit) == Uint32Min(start + extent, limit)

\* draw_bitmap (label, target, target_size, source, x_start, y_start)
draw_bitmap(l, buf, source, x_start, y_start) ==
    LET x_end == blit_end(x_start, source.width, buf.size.width)
        y_end == blit_end(y_start, source.rows, buf.size.height)
        cells == IF blit_starts_inside(buf.size, x_start, y_start)
                 THEN {<<x, y>> : x \in x_start .. (x_end - 1),
                                  y \in y_start .. (y_end - 1)}
                 ELSE {}
        \* pixels[k] is target[x + target_size.width * y] of some iteration
        hit(k) == /\ blit_starts_inside(buf.size, x_start, y_start)
                  /\ \E y \in y_start .. (y_end - 1) :
                        LET x == (k - 1) - buf.size.width * y
                        IN x_start <= x /\ x < x_end
    IN [size |-> buf.size,
        pixels |-> IF cells = {} THEN buf.pixels
                   ELSE [k \in DOMAIN buf.pixels |->
                            IF hit(k)
                            THEN blend(l, source.coverage, buf.pixels[k])
                            ELSE buf.pixels[k]],
        touched |-> buf.touched \cup cells]

\* "Check for overlap": the condition under which draw_control returns
no_overlap(area, x, y, width, height) ==
    \/ area.x > x + width
    \/ area.y > y + height
    \/ area.x + area.width < x
    \/ area.y + area.height < y

\* the inner loop of draw_control (one line), from character i on
RECURSIVE draw_chars(_, _, _, _, _)
draw_chars(l, text, i, pen, buf) ==
    IF i > Len(text) \/ text[i] = NL
    THEN [i |-> i, pen |-> pen, buf |-> buf, hung |-> FALSE]
    ELSE LET slot == FT_Load_Char(l.face, text[i]) IN
         IF slot.error
         THEN \* "continue" with cur_c where it was: the same character again
              [i |-> i, pen |-> pen, buf |-> buf, hung |-> TRUE]
         ELSE LET extraAdvance == IF slot.bitmap_left < 0
                                  THEN -slot.bitmap_left ELSE 0
                  positiveBearingX == IF slot.bitmap_left < 0
                                      THEN 0 ELSE slot.bitmap_left
                  b1 == draw_bitmap(l, buf, slot,
                                    Shr(pen.x, 6) + positiveBearingX,
                                    Shr(pen.y, 6) - slot.bitmap_top)
                  p1 == [x |-> pen.x + slot.advance_x + extraAdvance,
                         y |-> pen.y + slot.advance_y]
              IN draw_chars(l, text, i + 1, p1, b1)

\* the "Go through each line" loop of draw_control, from character i on
RECURSIVE draw_lines(_, _, _, _, _)
draw_lines(l, text, i, pen_y, buf) ==
    IF i > Len(text)
    THEN [buf |-> buf, hung |-> FALSE]
    ELSE LET line == width_of_line(l.face, text, i)
             aligned == l.alignment \in {"CENTER", "RIGHT"}
             x0 == Shl(l.area.x, 6)
             pen_x == CASE l.alignment = "CENTER" ->
                               x0 + Shl(l.area.width - line.width, 5)
                        [] l.alignment = "RIGHT" ->
                               x0 + Shl(l.area.width - line.width, 6)
                        [] OTHER -> x0
             r == draw_chars(l, text, i, [x |-> pen_x, y |-> pen_y], buf)
             next == IF r.i <= Len(text) THEN r.i + 1 ELSE r.i
         IN IF aligned /\ line.hung
            THEN [buf |-> buf, hung |-> TRUE]
            ELSE IF r.hung
            THEN [buf |-> r.buf, hung |-> TRUE]
            ELSE draw_lines(l, text, next,
                            r.pen.y + FaceMetrics(l.face).height, r.buf)

\* draw_control without its "if (label->is_hidden) return;"
draw_control_ignores_hidden(l, buf, x, y, width, height, at_null) ==
    LET done == [buf |-> buf, hung |-> FALSE, crashed |-> FALSE,
                 null_read |-> FALSE]
    IN IF no_overlap(l.area, x, y, width, height) THEN done
       ELSE IF buf.size.height = 0 THEN done
       ELSE IF l.text = NullText /\ at_null = <<"fault">>
       THEN [done EXCEPT !.crashed = TRUE, !.null_read = TRUE]
       ELSE LET cur_c == IF l.text = NullText THEN at_null ELSE l.text
                pen_y == Shl(l.area.y, 6) + FaceMetrics(l.face).ascender
                r == draw_lines(l, cur_c, 1, pen_y, buf)
            IN [buf |-> r.buf, hung |-> r.hung, crashed |-> FALSE,
                null_read |-> l.text = NullText]

\* draw_control (label, pixel_buffer, x, y, width, height).  at_null is what
\* "*cur_c" yields when label->text is NULL: "fault", or the characters
\* that happen to lie at address zero.
draw_control(l, buf, x, y, width, height, at_null) ==
    LET done == [buf |-> buf, hung |-> FALSE, crashed |-> FALSE,
                 null_read |-> FALSE]
    IN IF l.is_hidden THEN done
       ELSE IF no_overlap(l.area, x, y, width, height) THEN done
       ELSE IF buf.size.height = 0 THEN done
       ELSE IF l.text = NullText /\ at_null = <<"fault">>
       THEN [done EXCEPT !.crashed = TRUE, !.null_read = TRUE]
       ELSE LET cur_c == IF l.text = NullText THEN at_null ELSE l.text
                pen_y == Shl(l.area.y, 6) + FaceMetrics(l.face).ascender
                r == draw_lines(l, cur_c, 1, pen_y, buf)
            IN [buf |-> r.buf, hung |-> r.hung, crashed |-> FALSE,
                null_read |-> l.text = NullText]

-----------------------------------------------------------------------------
(* The handlers.  Each gives the label after the call, the repaint         *)
(* requests made during it, and whether the call returns.                  *)

Digits == <<"0", "1", "2", "3", "4", "5", "6", "7", "8", "9">>
IsDigit(c) == \E d \in DOMAIN Digits : Digits[d] = c
DigitValue(c) == (CHOOSE d \in DOMAIN Digits : Digits[d] = c) - 1

\* strrchr (fontdesc, ' '): the index of the last space, 0 for NULL
strrchr_space(s) ==
    LET at == {i \in DOMAIN s : s[i] = " "}
    IN IF at = {} THEN 0 ELSE CHOOSE i \in at : \A j \in at : j <= i

\* the digits of strtoul, from index i on
RECURSIVE strtoul_digits(_, _, _)
strtoul_digits(s, i, value) ==
    IF i <= Len(s) /\ IsDigit(s[i])
    THEN strtoul_digits(s, i + 1, value * 10 + DigitValue(s[i]))
    ELSE [value |-> value, after |-> i]

\* strtoul (s + i - 1, &after, 10): leading white space is skipped; with no
\* digit at all the value is 0 and after is where the scan began
RECURSIVE strtoul(_, _, _)
strtoul(s, i, begin) ==
    IF i <= Len(s) /\ s[i] = " "
    THEN strtoul(s, i + 1, begin)
    ELSE LET r == strtoul_digits(s, i, 0)
         IN IF r.after = i THEN [value |-> 0, after |-> begin] ELSE r

\* the size set_font_for_control gives the face, in pixels per em
font_size(fontdesc) ==
    LET size_str == strrchr_space(fontdesc)
        n == strtoul(fontdesc, size_str, size_str)
        size == IF size_str = 0 \/ n.after = size_str THEN DefaultSize
                ELSE n.value
        size_in_pixels == /\ size_str # 0
                          /\ n.after # size_str
                          /\ SubSeq(fontdesc, n.after, Len(fontdesc)) = <<"p", "x">>
    IN IF size_in_pixels THEN size ELSE CharSizePpem(size, FontDpi)

\* create_control (): the label a successful construction returns
create_control ==
    [display |-> NULL,
     area |-> [x |-> 0, y |-> 0, width |-> 0, height |-> 0],
     alignment |-> "LEFT",
     width |-> -1,
     face |-> CharSizePpem(InitialPoints, InitialDpi),
     text |-> NullText,
     red |-> 0, green |-> 0, blue |-> 0, alpha |-> 0,
     is_hidden |-> TRUE]

set_alignment_for_control(l, alignment) ==
    IF l.alignment # alignment
    THEN trigger_redraw([l EXCEPT !.alignment = alignment], TRUE)
    ELSE [label |-> l, requests |-> <<>>, hung |-> FALSE]

set_width_for_control(l, width) ==
    IF l.width # width
    THEN trigger_redraw([l EXCEPT !.width = width], TRUE)
    ELSE [label |-> l, requests |-> <<>>, hung |-> FALSE]

\* same_pointer: the caller passed label->text itself
set_text_for_control(l, text, same_pointer) ==
    IF ~same_pointer
    THEN trigger_redraw([l EXCEPT !.text = text], TRUE)
    ELSE [label |-> l, requests |-> <<>>, hung |-> FALSE]

set_font_for_control(l, fontdesc) ==
    trigger_redraw([l EXCEPT !.face = font_size(fontdesc)], TRUE)

set_color_for_control(l, red, green, blue, alpha) ==
    trigger_redraw([l EXCEPT !.red = red, !.green = green,
                             !.blue = blue, !.alpha = alpha], FALSE)

show_control(l, display, x, y) ==
    LET dirty_area == l.area
        l1 == [l EXCEPT !.display = display, !.area.x = x, !.area.y = y,
                        !.is_hidden = FALSE]
        s == size_control(l1)
    IN IF s.hung
       THEN [label |-> s.label, requests |-> <<>>, hung |-> TRUE]
       ELSE [label |-> s.label,
             requests |-> IF ~s.label.is_hidden /\ s.label.display # NULL
                          THEN <<draw_area(s.label, dirty_area)>>
                          ELSE <<>>,
             hung |-> FALSE]

\* hide_control with the request made before is_hidden is set
hide_control_request_first(l) ==
    [label |-> [l EXCEPT !.is_hidden = TRUE, !.display = NULL],
     requests |-> IF l.display # NULL
                  THEN <<draw_area(l, l.area)>>
                  ELSE <<>>,
     hung |-> FALSE]

hide_control(l) ==
    LET l1 == [l EXCEPT !.is_hidden = TRUE]
    IN [label |-> [l1 EXCEPT !.display = NULL],
        requests |-> IF l1.display # NULL
                     THEN <<draw_area(l1, l1.area)>>
                     ELSE <<>>,
        hung |-> FALSE]

-----------------------------------------------------------------------------
(* Inputs *)

Pos == {0, 1}             \* show() and clip x positions
Rows == {0}               \* show() and clip y positions
ClipSides == {1}          \* clip rectangles are squares of these sides
Displays == {NULL, Display}
Alignments == {"LEFT", "CENTER", "RIGHT"}
Widths == {-1, 5}
Texts == {<<>>, <<"a", "i", NL, "j">>, <<"a", "x">>}
FontDescs == {<<"F", " ", "1", "6">>, <<"F", " ", "2", "5", "p", "x">>,
              <<"F">>, <<"F", " ", "b">>}
Colors == {[red |-> 1, green |-> 0, blue |-> 1, alpha |-> 1]}
TargetSizes == {[width |-> TargetW, height |-> TargetH],
                [width |-> TargetW, height |-> 0]}
AtNull == {<<"fault">>, <<>>, <<"a">>}

Opaque == Argb(255, 0, 0, 0)      \* opaque black

\* a pixel buffer of the given size, every pixel holding `fill'
Buffer(size, fill) ==
    [size |-> size,
     pixels |-> [k \in 1 .. (size.width * size.height) |-> fill],
     touched |-> {}]

NoDraw == [called |-> FALSE,
           clip |-> [x |-> 0, y |-> 0, width |-> 0, height |-> 0],
           buf |-> Buffer([width |-> 0, height |-> 0], Opaque),
           null_read |-> FALSE]

NoBlit == [pc |-> "none"]

-----------------------------------------------------------------------------
(* The control *)

Init ==
    /\ label = create_control
    /\ requests = <<>>
    /\ drawn = NoDraw
    /\ lastOp = "create"
    /\ hung = FALSE
    /\ crashed = FALSE
    /\ blit = NoBlit

Running == ~hung /\ ~crashed

\* Every handler but draw_control: r is what the handler returns, the label as
\* it leaves it and the requests it made; no pixel buffer is in play.

Show ==
    \E d \in Displays, x \in Pos, y \in Rows :
        \E r \in {show_control(label, d, x, y)} :
           /\ Running
           /\ label' = r.label
           /\ requests' = r.requests
           /\ hung' = r.hung
           /\ lastOp' = "show"
           /\ drawn' = NoDraw
           /\ UNCHANGED <<crashed, blit>>

Hide ==
    \E r \in {hide_control(label)} :
       /\ Running
       /\ label' = r.label
       /\ requests' = r.requests
       /\ hung' = r.hung
       /\ lastOp' = "hide"
       /\ drawn' = NoDraw
       /\ UNCHANGED <<crashed, blit>>

SetAlignment ==
    \E a \in Alignments :
        \E r \in {set_alignment_for_control(label, a)} :
           /\ Running
           /\ label' = r.label
           /\ requests' = r.requests
           /\ hung' = r.hung
           /\ lastOp' = "set_alignment"
           /\ drawn' = NoDraw
           /\ UNCHANGED <<crashed, blit>>

SetWidth ==
    \E w \in Widths :
        \E r \in {set_width_for_control(label, w)} :
           /\ Running
           /\ label' = r.label
           /\ requests' = r.requests
           /\ hung' = r.hung
           /\ lastOp' = "set_width"
           /\ drawn' = NoDraw
           /\ UNCHANGED <<crashed, blit>>

\* a new string, or the pointer the label already holds
SetText ==
    \E p \in ({FALSE} \X Texts) \cup {<<TRUE, label.text>>} :
        \E r \in {set_text_for_control(label, p[2], p[1])} :
           /\ Running
           /\ label' = r.label
           /\ requests' = r.requests
           /\ hung' = r.hung
           /\ lastOp' = "set_text"
           /\ drawn' = NoDraw
           /\ UNCHANGED <<crashed, blit>>

SetFont ==
    \E f \in FontDescs :
        \E r \in {set_font_for_control(label, f)} :
           /\ Running
           /\ label' = r.label
           /\ requests' = r.requests
           /\ hung' = r.hung
           /\ lastOp' = "set_font"
           /\ drawn' = NoDraw
           /\ UNCHANGED <<crashed, blit>>

SetColor ==
    \E c \in Colors :
        \E r \in {set_color_for_control(label, c.red, c.green, c.blue, c.alpha)} :
           /\ Running
           /\ label' = r.label
           /\ requests' = r.requests
           /\ hung' = r.hung
           /\ lastOp' = "set_color"
           /\ drawn' = NoDraw
           /\ UNCHANGED <<crashed, blit>>

Draw == \E x \in Pos, y \in Rows, side \in ClipSides, size \in TargetSizes,
           at_null \in IF label.text = NullText THEN AtNull ELSE {<<>>} :
            LET w == side
                h == side
                r == draw_control(label, Buffer(size, Opaque), x, y, w, h, at_null)
            IN /\ Running
               /\ drawn' = [called |-> TRUE,
                            clip |-> [x |-> x, y |-> y, width |-> w, height |-> h],
                            buf |-> r.buf,
                            null_read |-> r.null_read]
               /\ hung' = r.hung
               /\ crashed' = r.crashed
               /\ requests' = <<>>
               /\ lastOp' = "draw"
               /\ UNCHANGED <<label, blit>>

Next ==
    \/ Show
    \/ Hide
    \/ SetAlignment
    \/ SetWidth
    \/ SetText
    \/ SetFont
    \/ SetColor
    \/ Draw

Spec == Init /\ [][Next]_vars

-----------------------------------------------------------------------------
(* draw_bitmap alone: one call on bounded inputs *)

Starts == (0 - MaxStart) .. MaxStart
Coverages == {0, 128, 255}
Fills == {Opaque, Argb(128, 255, 16, 0)}

\* the labels a blit can belong to: fresh (alpha 0), or coloured
BlitLabels ==
    {create_control} \cup
    {set_color_for_control(create_control, c.red, c.green, c.blue, c.alpha).label :
        c \in Colors}

InitBlit ==
    /\ label \in BlitLabels
    /\ requests = <<>>
    /\ drawn = NoDraw
    /\ lastOp = "set_color"
    /\ hung = FALSE
    /\ crashed = FALSE
    /\ \E x_start \in Starts, y_start \in Starts,
          tw \in 0 .. MaxTarget, th \in 0 .. MaxTarget,
          gw \in 0 .. MaxGlyph, rows \in 0 .. MaxGlyph,
          coverage \in Coverages, fill \in Fills :
            blit = [pc |-> "call",
                    x_start |-> x_start, y_start |-> y_start,
                    source |-> [width |-> gw, rows |-> rows, coverage |-> coverage],
                    fill |-> fill,
                    buf |-> Buffer([width |-> tw, height |-> th], fill)]

Blit ==
    /\ blit.pc = "call"
    /\ blit' = [blit EXCEPT
                  !.pc = "done",
                  !.buf = draw_bitmap(label, blit.buf, blit.source,
                                      blit.x_start, blit.y_start)]
    /\ UNCHANGED <<label, requests, drawn, lastOp, hung, crashed>>

NextBlit == Blit

SpecBlit == InitBlit /\ [][NextBlit]_vars

-----------------------------------------------------------------------------
(* size_control alone: a label configured while hidden, then shown *)

InitLayout ==
    /\ \E t \in Texts \cup {NullText, <<NL>>, <<"j", NL>>},
          w \in (0 - 1) .. MaxWidth, f \in FontDescs :
            label = [create_control EXCEPT !.text = t, !.width = w,
                                           !.face = font_size(f)]
    /\ requests = <<>>
    /\ drawn = NoDraw
    /\ lastOp = "set_width"
    /\ hung = FALSE
    /\ crashed = FALSE
    /\ blit = NoBlit

NextLayout == Show \/ Hide

SpecLayout == InitLayout /\ [][NextLayout]_vars

-----------------------------------------------------------------------------
(* Properties *)

Max(a, b) == IF a >= b THEN a ELSE b

\* measure_label of the layout engine: the box of a text under a font size
\* and a requested width, computed on its own
measure_label(ppem, text, min_width) ==
    LET s == size_lines(ppem, text, 1, 0, 0)
    IN [hung |-> s.hung, width |-> Max(s.width, min_width), height |-> s.height]

Setters == {"set_text", "set_alignment", "set_width", "set_font"}

RequestBox(r) == [x |-> r.x, y |-> r.y, width |-> r.width, height |-> r.height]

\* the half-open rectangles of a box and of a clip share a point
SharePoint(a, c) ==
    /\ a.x < c.x + c.width /\ c.x < a.x + a.width
    /\ a.y < c.y + c.height /\ c.y < a.y + a.height

\* the point (x, y) lies in the clip rectangle
Inside(x, y, c) ==
    /\ c.x <= x /\ x < c.x + c.width
    /\ c.y <= y /\ y < c.y + c.height

\* the buffer of the last draw holds what it held before the draw
Untouched(b) == b.touched = {} /\ b.pixels = Buffer(b.size, Opaque).pixels

\* C1: whenever the label is visible, its cached box is measure_label of
\* its current text, font size and requested width.
C1_VisibleBoxIsMeasured ==
    (Running /\ ~label.is_hidden) =>
        LET m == measure_label(label.face, label.text, label.width)
        IN ~m.hung =>
             /\ label.area.width = m.width
             /\ label.area.height = m.height

\* C2: the repaint requested by show, or by a setter on a shown label,
\* covers the box as that same call recomputed it.
C2_RepaintCoversNewBox ==
    (lastOp \in Setters \cup {"show"} /\ requests # <<>>) =>
        RequestBox(requests[1]) = label.area

\* C3: on a hidden label every setter, hide and draw leave the box and the
\* pixel buffer alone, request no repaint, and return.
C3_HiddenIsInert ==
    [][(label.is_hidden
        /\ lastOp' \in Setters \cup {"set_color", "hide", "draw"}) =>
            /\ label'.area = label.area
            /\ label'.is_hidden
            /\ requests' = <<>>
            /\ Untouched(drawn'.buf)
            /\ ~hung' /\ ~crashed']_vars

\* a draw on a label hidden after it was shown with a text: nothing written
C3_Witness ==
    /\ label.is_hidden /\ lastOp = "draw" /\ drawn.called
    /\ label.area.height > 0 /\ label.text # NullText
    /\ drawn.buf.size.height > 0
    /\ Untouched(drawn.buf)

\* C4: measuring and drawing return for every text, also one holding a
\* character the backend cannot load.
C4_ScansTerminate == lastOp \in Setters \cup {"show", "draw"} => ~hung

\* the cached box is the measured one
BoxMeasured ==
    LET m == measure_label(label.face, label.text, label.width)
    IN ~m.hung /\ label.area.width = m.width /\ label.area.height = m.height

\* C5: a draw on a shown label whose clip rectangle shares no point with
\* the label's box writes no pixel.  (Stated for labels whose text is
\* present and whose box is the measured one.)
C5_DisjointClipDrawsNothing ==
    (drawn.called /\ Running /\ ~label.is_hidden /\ label.text # NullText
     /\ BoxMeasured /\ ~SharePoint(label.area, drawn.clip)) =>
        drawn.buf.touched = {}

\* C6: with the text absent, a draw on the shown label whose clip holds the
\* label's origin reads nothing through the absent text, writes no pixel
\* and returns.
C6_AbsentTextDrawsNothing ==
    (drawn.called /\ label.text = NullText /\ ~label.is_hidden
     /\ Inside(label.area.x, label.area.y, drawn.clip)) =>
        /\ ~drawn.null_read
        /\ ~crashed
        /\ drawn.buf.touched = {}

\* C7 as stated: an empty text measures 0 x 0 under every requested width.
C7_EmptyTextIsZeroByZero ==
    (lastOp = "show" /\ label.text = <<>>) =>
        label.area.width = 0 /\ label.area.height = 0

\* C7, amended: an empty text measures height 0 and the requested width
\* (0 when the width is unconstrained).
C7_EmptyTextIsMinWidthByZero ==
    (lastOp = "show" /\ label.text = <<>>) =>
        label.area.width = Max(0, label.width) /\ label.area.height = 0

C7_Witness ==
    /\ lastOp = "show" /\ label.text = <<>>
    /\ label.width > 0 /\ label.area.width = label.width

\* a blit that contributes nothing: coverage 0 or label alpha 0
Transparent == blit.source.coverage = 0 \/ label.alpha = 0

\* C8 as stated: a fully transparent blit leaves every pixel as it was, its
\* alpha byte included.
C8_TransparentBlitKeepsPixels ==
    (blit.pc = "done" /\ Transparent) =>
        blit.buf.pixels = Buffer(blit.buf.size, blit.fill).pixels

\* C8, amended: a fully transparent blit leaves the red, green and blue
\* bytes of every pixel as they were and sets the alpha byte of each pixel it
\* covers to 0; the pixels it does not cover keep all four bytes.
C8_TransparentBlitKeepsColour ==
    (blit.pc = "done" /\ Transparent) =>
        \A k \in DOMAIN blit.buf.pixels :
            LET x == (k - 1) % blit.buf.size.width
                y == (k - 1) \div blit.buf.size.width
                new == blit.buf.pixels[k]
            IN /\ new.r = blit.fill.r /\ new.g = blit.fill.g /\ new.b = blit.fill.b
               /\ new.a = IF <<x, y>> \in blit.buf.touched THEN 0 ELSE blit.fill.a

C8_Witness ==
    /\ blit.pc = "done" /\ Transparent
    /\ blit.buf.touched # {} /\ blit.fill.a # 0
    /\ blit.source.coverage # 0

\* C9 as stated: hide issues its repaint request while the label is shown.
C9_RequestWhileShown ==
    (lastOp = "hide" /\ requests # <<>>) => ~requests[1].is_hidden

\* C9, amended: hide on an attached label issues exactly one repaint
\* request, for the current box on the attached surface, after the label
\* became hidden and before the surface is detached; hide on a label with
\* no surface issues none.
C9_HideRequestsOnceHidden ==
    [][lastOp' = "hide" =>
          /\ label'.is_hidden /\ label'.display = NULL
          /\ requests' = IF label.display # NULL
                         THEN <<[display |-> label.display,
                                 x |-> label.area.x, y |-> label.area.y,
                                 width |-> label.area.width,
                                 height |-> label.area.height,
                                 is_hidden |-> TRUE]>>
                         ELSE <<>>]_vars

C9_Witness ==
    /\ lastOp = "hide" /\ Len(requests) = 1
    /\ requests[1].is_hidden /\ requests[1].display = Display
    /\ requests[1].height > 0

\* C10: every pixel a blit touches lies in the target; a blit that starts
\* outside the target touches nothing, and one that starts inside covers
\* exactly the part of the glyph that lies in the target.
C10_BlitStaysInTarget ==
    blit.pc = "done" =>
        LET tw == blit.buf.size.width
            th == blit.buf.size.height
            inside == /\ 0 <= blit.x_start /\ blit.x_start < tw
                      /\ 0 <= blit.y_start /\ blit.y_start < th
        IN /\ \A c \in blit.buf.touched :
                0 <= c[1] /\ c[1] < tw /\ 0 <= c[2] /\ c[2] < th
           /\ ~inside => /\ blit.buf.touched = {}
                         /\ blit.buf.pixels = Buffer(blit.buf.size, blit.fill).pixels
           /\ inside =>
                blit.buf.touched =
                    {c \in (0 .. (tw - 1)) \X (0 .. (th - 1)) :
                        /\ blit.x_start <= c[1]
                        /\ c[1] < blit.x_start + blit.source.width
                        /\ blit.y_start <= c[2]
                        /\ c[2] < blit.y_start + blit.source.rows}

\* a glyph that starts inside and runs past the right and bottom edges
C10_Witness ==
    /\ blit.pc = "done" /\ blit.buf.touched # {}
    /\ blit.x_start + blit.source.width > blit.buf.size.width
    /\ blit.y_start + blit.source.rows > blit.buf.size.height

=============================================================================
